---- MODULE Spec2Model ----
(***************************************************************************)
(* chemz: the canonical track schema (chemz/base.py, class Track) and its  *)
(* FLAC adapter (chemz/flac.py, class FLACTrack).                          *)
(*                                                                         *)
(* One FLACTrack object over one audio file.  The mutagen FLAC handle is   *)
(* the tag store: `tags` and `pictures` are its in-memory Vorbis comments  *)
(* and picture blocks, `dtags` and `dpictures` what the file on disk       *)
(* holds.  `files` are the other files of the track's directory.           *)
(***************************************************************************)
EXTENDS Integers, Sequences, FiniteSets, TLC

\* Bounds of the model.
MaxNum == 1        \* numeric tag values are 1..MaxNum
MaxDictLen == 3    \* longest dictionary handed to import_from_dict
MaxWidth == 3      \* widths handed to resize_cover are 0..MaxWidth

(***************************************************************************)
(* Python values of the attributes: None, str, int.                        *)
(***************************************************************************)
None == [t |-> "none", s |-> "", n |-> 0]
Str(x) == [t |-> "str", s |-> x, n |-> 0]
Num(i) == [t |-> "int", s |-> "", n |-> i]
Values == {None, Str("a")} \cup {Num(i) : i \in 1..MaxNum}

\* FLACTrack.attrs: canonical attribute name -> native Vorbis comment key.
attrs ==
  [ album |-> "album", albumartist |-> "albumartist", artist |-> "artist",
    bpm |-> "bpm", comment |-> "comment", composer |-> "composer",
    conductor |-> "conductor", contentgroup |-> "contentgroup",
    copyright |-> "copyright", disc |-> "discnumber",
    encodedby |-> "encodedby", genre |-> "genre",
    initialkey |-> "initialkey", isrc |-> "isrc", lyricist |-> "lyricist",
    lyrics |-> "lyrics", origartist |-> "origartist",
    publisher |-> "organization", remixedby |-> "remixedby",
    subtitle |-> "subtitle", title |-> "title", totaldiscs |-> "disctotal",
    totaltracks |-> "tracktotal", track |-> "tracknumber",
    www |-> "location", year |-> "date" ]

\* attrs.items() in the dictionary's order (the order of the literal).
AttrOrder ==
  << "album", "albumartist", "artist", "bpm", "comment", "composer",
     "conductor", "contentgroup", "copyright", "disc", "encodedby", "genre",
     "initialkey", "isrc", "lyricist", "lyrics", "origartist", "publisher",
     "remixedby", "subtitle", "title", "totaldiscs", "totaltracks", "track",
     "www", "year" >>

Names == DOMAIN attrs
AttrItems == {<<k, attrs[k]>> : k \in Names}
MappedKeys == {attrs[k] : k \in Names}

\* Track.__slots__ and FLACTrack.__slots__.
TrackSlots == Names \cup {"cover", "path"}
FLACSlots == TrackSlots \cup {"flac"}

\* A native key of the file that no canonical attribute maps to.
UnmappedKey == "replaygain_track_gain"
StoreKeys == MappedKeys \cup {UnmappedKey}

VARIABLES attr, path, flac, cover, tags, pictures, dtags, dpictures, files,
          writable, last

vars == <<attr, path, flac, cover, tags, pictures, dtags, dpictures, files,
          writable, last>>

Handle == Str("<FLAC handle>")     \* the value __init__ gives the flac slot
OrigPath == Str("dir/track.flac")  \* the value __init__ gives the path slot
Unset == [t |-> "unset", s |-> "", n |-> 0]   \* a slot that holds nothing

Snap ==
  [ attr |-> attr, path |-> path, flac |-> flac, cover |-> cover,
    tags |-> tags, pictures |-> pictures, dtags |-> dtags,
    dpictures |-> dpictures, files |-> files ]

\* The caller is between two calls; `after` is the call that returned last.
IdleAfter(op) ==
  [op |-> "none", arg |-> <<>>, res |-> "", val |-> None, pre |-> <<>>, after |-> op]
Idle == IdleAfter("other")
\* The calls the caller's position remembers once they have returned.
Remembered == {"save", "setitem"}
\* A call has run and not yet returned: its argument, its outcome ("ok" or the
\* exception raised), the value it returns and the state it started from.
Called(op, arg, res, val) ==
  [op |-> op, arg |-> arg, res |-> res, val |-> val, pre |-> Snap, after |-> last.after]

(***************************************************************************)
(* The tag store (mutagen.flac.FLAC) as the adapter uses it.               *)
(***************************************************************************)
NoTags == [key \in StoreKeys |-> <<>>]

\* flac.get(key, default): the list of values under key, or the default.
FlacGet(t, key, default) ==
  IF key \in DOMAIN t /\ t[key] # <<>> THEN t[key] ELSE default

\* flac[key] = value with a value that is no list: the key holds [value].
FlacSetItem(t, key, value) == [t EXCEPT ![key] = <<value>>]

\* flac.save(): mutagen opens the file for writing, then encodes the comments,
\* which must all be text, and only then rewrites the file.
AllText(t) == \A key \in DOMAIN t : \A i \in 1..Len(t[key]) : t[key][i].t = "str"
SaveError(t) ==
  IF ~writable THEN "MutagenError" ELSE IF ~AllText(t) THEN "ValueError" ELSE "ok"

(***************************************************************************)
(* FLACTrack.read, save, delete_tag, delete_tags, __getitem__, __setitem__ *)
(***************************************************************************)
ReadKeyCanonical(k) == k
ReadKey(k) == attrs[k]
ReadAttrs(t) == [k \in Names |-> Head(FlacGet(t, ReadKey(k), <<None>>))]

NoneToEmpty(v) == IF v = None THEN Str("") ELSE v

RECURSIVE SaveFrom(_, _, _)
SaveFrom(i, t, a) ==
  IF i > Len(AttrOrder) THEN t
  ELSE SaveFrom(i + 1,
                FlacSetItem(t, attrs[AttrOrder[i]], NoneToEmpty(a[AttrOrder[i]])),
                a)
SaveTagsFromScratch(t, a) == SaveFrom(1, NoTags, a)
SaveTags(t, a) == SaveFrom(1, t, a)

Read ==
  /\ last.op = "none"
  /\ attr' = ReadAttrs(tags)
  /\ last' = Called("read", <<>>, "ok", None)
  /\ UNCHANGED <<path, flac, cover, tags, pictures, dtags, dpictures, files, writable>>

Save ==
  /\ last.op = "none"
  /\ tags' = SaveTags(tags, attr)
  /\ LET err == SaveError(tags') IN
       /\ last' = Called("save", <<>>, err, None)
       /\ IF err = "ok"
            THEN dtags' = tags' /\ dpictures' = pictures
            ELSE UNCHANGED <<dtags, dpictures>>
  /\ UNCHANGED <<attr, path, flac, cover, pictures, files, writable>>

\* delete_tag(tag): a tag is a string <<s>> or a pair <<k, v>>.
DeleteTagAccepts(tag) == tag \in AttrItems
DeleteTag(tag) ==
  /\ last.op = "none"
  /\ IF DeleteTagAccepts(tag)
       THEN \* flac.pop(tag) with a tuple: mutagen rejects the key
            last' = Called("delete_tag", tag, "TagStoreError", None)
       ELSE last' = Called("delete_tag", tag, "WrongFLACAttributeError", None)
  /\ UNCHANGED <<attr, path, flac, cover, tags, pictures, dtags, dpictures, files, writable>>

\* delete_tags(): flac.delete() rewrites the file without its comment block
\* and then empties the comments in memory.
DeleteTags ==
  /\ last.op = "none"
  /\ IF writable
       THEN /\ dtags' = NoTags /\ dpictures' = pictures /\ tags' = NoTags
            /\ last' = Called("delete_tags", <<>>, "ok", None)
       ELSE /\ UNCHANGED <<dtags, dpictures, tags>>
            /\ last' = Called("delete_tags", <<>>, "MutagenError", None)
  /\ UNCHANGED <<attr, path, flac, cover, pictures, files, writable>>

SetItemCanonical(t, key, value) ==
  IF key \in DOMAIN t THEN FlacSetItem(t, key, value) ELSE t
SetItemStore(t, key, value) == FlacSetItem(t, attrs[key], value)
SetItem(key, value) ==
  /\ last.op = "none"
  /\ IF key \in Names
       THEN /\ tags' = SetItemStore(tags, key, value)
            /\ last' = Called("setitem", <<key, value>>, "ok", None)
       ELSE /\ UNCHANGED tags
            /\ last' = Called("setitem", <<key, value>>, "KeyError", None)
  /\ UNCHANGED <<attr, path, flac, cover, pictures, dtags, dpictures, files, writable>>

GetItem(key) ==
  /\ last.op = "none"
  /\ IF key \in Names
       THEN last' = Called("getitem", <<key>>, "ok",
                           Head(FlacGet(tags, attrs[key], <<Str("")>>)))
       ELSE last' = Called("getitem", <<key>>, "KeyError", None)
  /\ UNCHANGED <<attr, path, flac, cover, tags, pictures, dtags, dpictures, files, writable>>

\* FLACTrack.__setattr__: only a slot or a key of attrs can be assigned.
SetAttrAllowed(name) == name \in FLACSlots \/ name \in Names
SetAttr(name, value) ==
  /\ last.op = "none"
  /\ IF SetAttrAllowed(name)
       THEN /\ attr' = IF name \in Names THEN [attr EXCEPT ![name] = value] ELSE attr
            /\ path' = IF name = "path" THEN value ELSE path
            /\ flac' = IF name = "flac" THEN value ELSE flac
            /\ cover' = IF name = "cover" THEN value ELSE cover
            /\ last' = Called("setattr", <<name, value>>, "ok", None)
       ELSE /\ UNCHANGED <<attr, path, flac, cover>>
            /\ last' = Called("setattr", <<name, value>>, "AttributeError", None)
  /\ UNCHANGED <<tags, pictures, dtags, dpictures, files, writable>>

\* The call has returned to the caller.
Return ==
  /\ last.op # "none"
  /\ last' = IdleAfter(IF last.op \in Remembered THEN last.op ELSE "other")
  /\ UNCHANGED <<attr, path, flac, cover, tags, pictures, dtags, dpictures, files, writable>>

(***************************************************************************)
(* Images: the bytes of an encoded image are its encoding, its size and    *)
(* whether its EXIF block carries the two stamps of resize_cover.          *)
(***************************************************************************)
Bytes(fmt, w, h, stamped) == [fmt |-> fmt, w |-> w, h |-> h, stamped |-> stamped]
Picture(data, mime) == [data |-> data, mime |-> mime]
Absent == Bytes("absent", 0, 0, FALSE)

TempNames == {"temp_cover.png", "temp_cover.jpg"}
NoFiles == [f \in TempNames |-> Absent]

\* The audio files a track is constructed over.
Tagged ==
  [NoTags EXCEPT !["title"] = <<Str("a")>>,
                 !["artist"] = <<Str("a"), Str("")>>,
                 !["discnumber"] = <<Str("")>>,
                 ![UnmappedKey] = <<Str("a")>>]
TagFiles == {NoTags, Tagged}
PictureFiles0 == <<>>
PictureFiles1 == <<Picture(Bytes("PNG", 4, 2, FALSE), "image/png")>>
PictureFiles ==
  { PictureFiles0, PictureFiles1,
    <<Picture(Bytes("GIF", 2, 2, FALSE), "image/gif")>>,
    <<Picture(Bytes("JPEG", 2, 4, FALSE), "image/jpeg"),
      Picture(Bytes("PNG", 4, 2, FALSE), "image/png")>> }

\* Image.open(BytesIO(data)): the decoded image keeps format and size.
Decode(data) == [fmt |-> data.fmt, w |-> data.w, h |-> data.h]

\* FLACTrack.read_cover: the new value of the cover slot.
ReadCover(pics, old) == IF pics # <<>> THEN Decode(pics[1].data) ELSE old

\* FLACTrack.__init__ over a file with these comments and pictures:
\* open the file, read(), read_cover().
Constructed(t, pics) ==
  /\ tags = t
  /\ pictures = pics
  /\ dtags = t
  /\ dpictures = pics
  /\ path = OrigPath
  /\ flac = Handle
  /\ attr = ReadAttrs(t)
  /\ cover = ReadCover(pics, Unset)
  /\ files = NoFiles
  /\ writable = TRUE
  /\ last = Idle

(***************************************************************************)
(* The tag operations of one track.                                        *)
(***************************************************************************)
AttrsTried == {"title", "disc"}
KeysTried == {"title", "disc", "discnumber", "foo"}
TagsTried == { <<"title">>, <<"disc">>, <<"year">>, <<"discnumber">>, <<"foo">>,
               <<"title", "title">>, <<"disc", "discnumber">> }

NextTags ==
  \/ \E k \in AttrsTried, v \in Values : SetAttr(k, v)
  \/ \E k \in KeysTried, v \in Values : SetItem(k, v)
  \/ \E k \in KeysTried : GetItem(k)
  \/ Read
  \/ Save
  \/ \E tag \in TagsTried : DeleteTag(tag)
  \/ DeleteTags
  \/ Return

InitTags == \E t \in TagFiles : Constructed(t, <<>>)

SpecTags == InitTags /\ [][NextTags]_vars

(***************************************************************************)
(* Track.import_from_dict and Track.export_to_dict on a FLACTrack.         *)
(***************************************************************************)

\* Names that getattr finds on the class: the methods and class attributes.
ClassAttrs ==
  { "read", "save", "read_cover", "add_cover", "export_cover", "remove_cover",
    "delete_tag", "delete_tags", "import_from_dict", "export_to_dict",
    "call_method", "resize_cover", "attrs" }

\* name[4:] for the names that start with "set_".
SetterNames ==
  [ set_title |-> "title", set_disc |-> "disc", set_foo |-> "foo",
    set_discnumber |-> "discnumber" ]

\* FLACTrack.__getattr__(name), reached when normal lookup fails: a setter is
\* synthesised for "set_" + a key of attrs, every other name fails.
GetAttrSynthesises(name) ==
  name \in DOMAIN SetterNames /\ SetterNames[name] \in Names

\* hasattr(self, key) in a state st of the slots.
HasAttr(st, key) ==
  \/ key \in Names                       \* read() has set every one of them
  \/ key = "path" /\ st.path # Unset
  \/ key = "flac" /\ st.flac # Unset
  \/ key = "cover" /\ st.cover # Unset
  \/ key \in ClassAttrs
  \/ GetAttrSynthesises(key)

Slots == [attr |-> attr, path |-> path, flac |-> flac, cover |-> cover, res |-> "ok"]

\* setattr(self, key, value) through FLACTrack.__setattr__, the name allowed.
SetSlot(st, key, value) ==
  IF key \in Names THEN [st EXCEPT !.attr[key] = value]
  ELSE IF key = "path" THEN [st EXCEPT !.path = value]
  ELSE IF key = "flac" THEN [st EXCEPT !.flac = value]
  ELSE [st EXCEPT !.cover = value]

\* The loop of import_from_dict from item i of d on.
RECURSIVE ImportFrom(_, _, _)
ImportFrom(i, d, st) ==
  IF i > Len(d) THEN st
  ELSE IF ~HasAttr(st, d[i][1]) THEN [st EXCEPT !.res = "AttributeError"]
  ELSE IF ~SetAttrAllowed(d[i][1]) THEN [st EXCEPT !.res = "AttributeError"]
  ELSE ImportFrom(i + 1, d, SetSlot(st, d[i][1], d[i][2]))

\* import_from_dict validating every key before it sets any.
ImportAtomically(d, st) ==
  IF \A i \in 1..Len(d) : HasAttr(st, d[i][1]) /\ SetAttrAllowed(d[i][1])
    THEN ImportFrom(1, d, st)
    ELSE [st EXCEPT !.res = "AttributeError"]
ImportDict(d, st) == ImportFrom(1, d, st)

ImportFromDict(d) ==
  /\ last.op = "none"
  /\ LET st == ImportDict(d, Slots) IN
       /\ attr' = st.attr
       /\ path' = st.path
       /\ flac' = st.flac
       /\ cover' = st.cover
       /\ last' = Called("import_from_dict", d, st.res, None)
  /\ UNCHANGED <<tags, pictures, dtags, dpictures, files, writable>>

\* export_to_dict: every slot of Track but path and cover, read with
\* getattr(self, key, None); FLACTrack drops "flac".
ExportedKeys == (FLACSlots \ {"path", "cover"}) \ {"flac"}
ExportToDict ==
  /\ last.op = "none"
  /\ last' = Called("export_to_dict", <<>>, "ok", [k \in ExportedKeys |-> attr[k]])
  /\ UNCHANGED <<attr, path, flac, cover, tags, pictures, dtags, dpictures, files, writable>>

\* The dictionaries handed to import_from_dict: items in iteration order,
\* no key twice.
DictKeys == { "title", "disc", "path", "cover", "flac", "save", "set_title",
              "set_foo", "foo" }
DictValues == {Str("b")}
Items == DictKeys \X DictValues
Dicts ==
  UNION { { d \in [1..n -> Items] : \A i, j \in 1..n : i # j => d[i][1] # d[j][1] }
          : n \in 1..MaxDictLen }

NextSchema ==
  \/ last.op = "none" /\ \E d \in Dicts : ImportFromDict(d)
  \/ ExportToDict
  \/ Return

InitSchema == \E pics \in {PictureFiles0, PictureFiles1} : Constructed(Tagged, pics)

SpecSchema == InitSchema /\ [][NextSchema]_vars

(***************************************************************************)
(* The cover operations: read_cover, add_cover, remove_cover, resize_cover *)
(***************************************************************************)

\* Image files outside the track that add_cover is handed: suffix and bytes.
ImageFiles ==
  [ a_png  |-> [suffix |-> ".png",  data |-> Bytes("PNG", 4, 2, FALSE)],
    b_jpg  |-> [suffix |-> ".jpg",  data |-> Bytes("JPEG", 2, 4, FALSE)],
    c_jpeg |-> [suffix |-> ".jpeg", data |-> Bytes("GIF", 2, 2, FALSE)],
    d_gif  |-> [suffix |-> ".gif",  data |-> Bytes("GIF", 2, 2, FALSE)],
    e_png  |-> [suffix |-> ".png",  data |-> Absent] ]
TempSuffix == [f \in TempNames |-> IF f = "temp_cover.png" THEN ".png" ELSE ".jpg"]

MimeOf(suffix) == IF suffix = ".png" THEN "image/png" ELSE "image/jpeg"

\* flac.clear_pictures()
ClearPicturesKeeps(pics) == pics
ClearPictures(pics) == <<>>

\* The store after add_cover(path) with the file's suffix and bytes, from the
\* store st = [pictures, dtags, dpictures, res]: remove_cover() and its save,
\* add_picture, save.
AddCoverTo(st, suffix, data) ==
  IF suffix \notin {".jpg", ".jpeg", ".png"}
    THEN [st EXCEPT !.res = "WrongPictureFormatError"]
  ELSE IF data = Absent
    THEN [st EXCEPT !.res = "FileNotFoundError"]
  ELSE IF SaveError(tags) # "ok"
    THEN \* remove_cover: the pictures are cleared, its save raises
         [st EXCEPT !.pictures = ClearPictures(st.pictures), !.res = SaveError(tags)]
  ELSE LET pics == Append(ClearPictures(st.pictures), Picture(data, MimeOf(suffix)))
       IN  [pictures |-> pics, dtags |-> tags, dpictures |-> pics, res |-> "ok"]

Store == [pictures |-> pictures, dtags |-> dtags, dpictures |-> dpictures, res |-> "ok"]

AddCover(p) ==
  /\ last.op = "none"
  /\ LET st == AddCoverTo(Store, ImageFiles[p].suffix, ImageFiles[p].data) IN
       /\ pictures' = st.pictures
       /\ dtags' = st.dtags
       /\ dpictures' = st.dpictures
       /\ last' = Called("add_cover", p, st.res, None)
  /\ UNCHANGED <<attr, path, flac, cover, tags, files, writable>>

RemoveCover ==
  /\ last.op = "none"
  /\ pictures' = ClearPictures(pictures)
  /\ LET err == SaveError(tags) IN
       /\ last' = Called("remove_cover", <<>>, err, None)
       /\ IF err = "ok"
            THEN dtags' = tags /\ dpictures' = pictures'
            ELSE UNCHANGED <<dtags, dpictures>>
  /\ UNCHANGED <<attr, path, flac, cover, tags, files, writable>>

ReadCoverCall ==
  /\ last.op = "none"
  /\ cover' = ReadCover(pictures, cover)
  /\ last' = Called("read_cover", <<>>, "ok",
                    IF pictures # <<>> THEN cover' ELSE None)
  /\ UNCHANGED <<attr, path, flac, tags, pictures, dtags, dpictures, files, writable>>

\* The extension argument: NoExtension stands for None.
NoExtension == "<None>"
ExtensionAllowed(ext) == ext \in {NoExtension, "jpg", "jpeg", "png"}

\* extension.lower().replace("e", "") for the allowed extensions.
SuffixOfExtension == [jpg |-> "jpg", jpeg |-> "jpg", png |-> "png"]

\* What resize_cover resizes: the image read_cover returns, None without one.
NoImage == [fmt |-> "none", w |-> 0, h |-> 0]
ImageCached(pics, old) ==
  IF pics # <<>> THEN Decode(pics[1].data) ELSE IF old = Unset THEN NoImage ELSE old
ImageToResize(pics, old) == IF pics # <<>> THEN Decode(pics[1].data) ELSE NoImage

Abs(x) == IF x < 0 THEN -x ELSE x
Max(x, y) == IF x > y THEN x ELSE y

\* Image.thumbnail((x, y)) on a w * h image: the new size, <<0, 0>> when
\* the division by y fails.
Thumbnail(w, h, x, y) ==
  IF x >= w /\ y >= h THEN <<w, h>>
  ELSE IF y = 0 THEN <<0, 0>>
  ELSE IF x * h >= w * y
    THEN LET fl == (y * w) \div h
             ce == IF (y * w) % h = 0 THEN fl ELSE fl + 1
             nx == IF Abs(w * y - fl * h) <= Abs(w * y - ce * h) THEN fl ELSE ce
         IN  <<Max(nx, 1), y>>
    ELSE LET fl == (x * h) \div w
             ce == IF (x * h) % w = 0 THEN fl ELSE fl + 1
             ny == IF fl = 0 \/ Abs(w * fl - x * h) * ce <= Abs(w * ce - x * h) * fl
                     THEN fl ELSE ce
         IN  <<x, Max(ny, 1)>>

\* The suffix of the temporary file and the format it is encoded in.
ResizeSuffix(ext, image) ==
  IF ext # NoExtension THEN SuffixOfExtension[ext]
  ELSE IF image.fmt = "PNG" THEN "png" ELSE "jpg"
ResizeFormat(ext, image) ==
  IF ext # NoExtension
    THEN IF SuffixOfExtension[ext] = "png" THEN "PNG" ELSE "JPEG"
    ELSE image.fmt
TempName(suffix) == IF suffix = "png" THEN "temp_cover.png" ELSE "temp_cover.jpg"

ResizeCover(width, ext) ==
  /\ last.op = "none"
  /\ LET image == ImageToResize(pictures, cover) IN
     IF ~ExtensionAllowed(ext)
       THEN /\ last' = Called("resize_cover", <<width, ext>>, "WrongPictureFormatError", None)
            /\ UNCHANGED <<cover, pictures, dtags, dpictures, files>>
     ELSE IF image = NoImage
       THEN /\ last' = Called("resize_cover", <<width, ext>>, "NoCoverFoundError", None)
            /\ UNCHANGED <<cover, pictures, dtags, dpictures, files>>
     ELSE
       LET height == (width * image.h) \div image.w
           size == Thumbnail(image.w, image.h, width, height)
           temp == TempName(ResizeSuffix(ext, image))
           format == ResizeFormat(ext, image)
           data == Bytes(format, size[1], size[2], format \in {"PNG", "JPEG"})
           st == AddCoverTo(Store, TempSuffix[temp], data)
       IN  IF size = <<0, 0>>
             THEN /\ cover' = image
                  /\ last' = Called("resize_cover", <<width, ext>>, "ZeroDivisionError", None)
                  /\ UNCHANGED <<pictures, dtags, dpictures, files>>
             ELSE /\ cover' = [image EXCEPT !.w = size[1], !.h = size[2]]
                  /\ pictures' = st.pictures
                  /\ dtags' = st.dtags
                  /\ dpictures' = st.dpictures
                  /\ files' = [files EXCEPT ![temp] = IF st.res = "ok" THEN Absent ELSE data]
                  /\ last' = Called("resize_cover", <<width, ext>>, st.res, None)
  /\ UNCHANGED <<attr, path, flac, tags, writable>>

\* The file's permissions change under the track (outside the program).
Chmod ==
  /\ last.op = "none"
  /\ writable' = ~writable
  /\ UNCHANGED <<attr, path, flac, cover, tags, pictures, dtags, dpictures, files, last>>

PathsTried == DOMAIN ImageFiles
WidthsTried == 0..MaxWidth
ExtensionsTried == {NoExtension, "jpg", "jpeg", "png", "gif", "PNG"}

NextCover ==
  \/ \E p \in PathsTried : AddCover(p)
  \/ RemoveCover
  \/ ReadCoverCall
  \/ \E width \in WidthsTried, ext \in ExtensionsTried : ResizeCover(width, ext)
  \/ Chmod
  \/ Return

InitCover == \E pics \in PictureFiles : Constructed(Tagged, pics)

SpecCover == InitCover /\ [][NextCover]_vars

(***************************************************************************)
(* Properties of the tag operations (checked under SpecTags).              *)
(***************************************************************************)

\* C1: for every canonical attribute name, delete_tag(name) succeeds and
\* removes the native tag under the mapped native key, leaving every other
\* native key of the store unchanged.
C1_DeleteTagRemovesMappedTag ==
  (last.op = "delete_tag" /\ Len(last.arg) = 1 /\ last.arg[1] \in Names) =>
     /\ last.res = "ok"
     /\ tags[attrs[last.arg[1]]] = <<>>
     /\ \A key \in StoreKeys \ {attrs[last.arg[1]]} : tags[key] = last.pre.tags[key]

\* C3: save() followed by read() leaves every canonical attribute that was
\* not None equal to its value before save(), and every attribute that was
\* None equal to None or to the empty string.
C3_SaveReadRoundTrip ==
  (last.op = "read" /\ last.after = "save") =>
     \A k \in Names :
        /\ last.pre.attr[k] # None => attr[k] = last.pre.attr[k]
        /\ last.pre.attr[k] = None => attr[k] \in {None, Str("")}

C3_Witness ==
  /\ last.op = "read" /\ last.after = "save"
  /\ attr["disc"] = Num(1) /\ last.pre.attr["disc"] = Num(1)
  /\ attr["title"] = Str("") /\ last.pre.attr["title"] = None
  /\ attr["year"] = Str("")

\* C7: save() leaves every native key that is no value of attrs present and
\* with its value unchanged; once it has persisted, the file holds the same.
C7_SaveKeepsUnmappedKeys ==
  last.op = "save" =>
     /\ \A key \in StoreKeys \ MappedKeys : tags[key] = last.pre.tags[key]
     /\ last.res = "ok" => dtags = tags

C7_Witness ==
  /\ last.op = "save" /\ last.res = "ok"
  /\ tags[UnmappedKey] = <<Str("a")>>
  /\ tags["discnumber"] # last.pre.tags["discnumber"]

\* C10: track[k] = v with a mapped key k writes v only to the store in memory,
\* under the mapped native key, so that track[k] returns v, and leaves the
\* attribute k alone; a save() that follows it leaves every mapped native key
\* holding the attribute's value ("" for None), in memory and, when it
\* persists, in the file, which never holds v because of it.  With an unmapped
\* key, get and set fail and leave the store unchanged.
C10_IndexedAccessBypassesAttributes ==
  /\ (last.op = "setitem" /\ last.arg[1] \in Names) =>
        /\ last.res = "ok"
        /\ tags[attrs[last.arg[1]]] = <<last.arg[2]>>
        /\ \A key \in StoreKeys \ {attrs[last.arg[1]]} : tags[key] = last.pre.tags[key]
        /\ attr = last.pre.attr
        /\ dtags = last.pre.dtags
  /\ (last.op = "getitem" /\ last.arg[1] \in Names) =>
        /\ last.res = "ok"
        /\ tags[attrs[last.arg[1]]] # <<>> => last.val = tags[attrs[last.arg[1]]][1]
        /\ tags[attrs[last.arg[1]]] = <<>> => last.val = Str("")
        /\ tags = last.pre.tags
  /\ (last.op = "save" /\ last.after = "setitem") =>
        /\ \A k \in Names : tags[attrs[k]] = <<NoneToEmpty(attr[k])>>
        /\ attr = last.pre.attr
        /\ last.res = "ok" => dtags = tags
        /\ last.res # "ok" => dtags = last.pre.dtags
  /\ (last.op \in {"setitem", "getitem"} /\ last.arg[1] \notin Names) =>
        /\ last.res = "KeyError"
        /\ tags = last.pre.tags
        /\ dtags = last.pre.dtags

C10_Witness ==
  /\ last.op = "save" /\ last.after = "setitem" /\ last.res = "ok"
  /\ last.pre.tags["discnumber"] = <<Num(1)>>
  /\ last.pre.dtags["discnumber"] # <<Num(1)>>
  /\ attr["disc"] = None
  /\ dtags["discnumber"] = <<Str("")>>

(***************************************************************************)
(* Properties of import_from_dict (checked under SpecSchema).              *)
(***************************************************************************)

\* C2: for every key k that is none of the 26 canonical attribute names,
\* import_from_dict({k: v}) fails with the unknown-attribute error and no
\* field named k is created or changed on the track.
C2_NonCanonicalKeyRejected ==
  (last.op = "import_from_dict" /\ Len(last.arg) = 1 /\ last.arg[1][1] \notin Names) =>
     /\ last.res = "AttributeError"
     /\ attr = last.pre.attr
     /\ path = last.pre.path
     /\ flac = last.pre.flac
     /\ cover = last.pre.cover

\* A key import_from_dict does not recognise in the state the call began in:
\* no slot of the track, or the cover slot while it holds nothing.
UnknownKey(key) ==
  key \notin FLACSlots \/ (key = "cover" /\ last.pre.cover = Unset)

ResizeWroteTemp ==
  last.op = "resize_cover" /\ last.res \in {"ok", "MutagenError", "ValueError"}

\* C4: whenever resize_cover returns or fails after it has written its
\* temporary file, that file no longer exists.
C4_TempFileRemoved ==
  ResizeWroteTemp => \A f \in TempNames : files[f] = Absent

\* C5: after a successful add_cover(path), whatever the store held before,
\* the picture list holds exactly one picture, with the raw bytes of the file
\* and the mime type of its suffix, and the store has been persisted; after a
\* successful remove_cover or resize_cover it holds at most one; and no call
\* takes the list from at most one picture to more than one.
\* C5_AfterCoverCall is the part of C5 about the state a call ends in.
C5_AfterCoverCall ==
  /\ (last.op = "add_cover" /\ last.res = "ok") =>
        /\ pictures =
             << Picture(ImageFiles[last.arg].data,
                        IF ImageFiles[last.arg].suffix = ".png"
                          THEN "image/png" ELSE "image/jpeg") >>
        /\ dpictures = pictures
        /\ dtags = tags
  /\ (last.op \in {"remove_cover", "resize_cover"} /\ last.res = "ok") =>
        Len(pictures) <= 1

\* C5: C5_AfterCoverCall holds in every state, and once the picture list
\* holds at most one picture no step gives it more than one.
C5_SolePicture ==
  /\ []C5_AfterCoverCall
  /\ [][Len(pictures) <= 1 => Len(pictures') <= 1]_vars

C5_Witness ==
  /\ last.op = "add_cover" /\ last.res = "ok"
  /\ Len(last.pre.pictures) = 2
  /\ Len(pictures) = 1

\* C6 as claimed: on a track whose store has no picture, resize_cover fails
\* with NoCoverFoundError for every width and every extension argument, and
\* leaves the store and the track's directory unmodified.
C6_NoCoverAlwaysNoCoverFound ==
  (last.op = "resize_cover" /\ last.pre.pictures = <<>>) =>
     /\ last.res = "NoCoverFoundError"
     /\ tags = last.pre.tags /\ pictures = last.pre.pictures
     /\ dtags = last.pre.dtags /\ dpictures = last.pre.dpictures
     /\ files = last.pre.files

\* C6 amended: on a track whose store has no picture, resize_cover fails for
\* every width: with NoCoverFoundError when the extension is None, "jpg",
\* "jpeg" or "png", with WrongPictureFormatError for every other extension;
\* either way the store and the track's directory are left unmodified.
C6_NoCoverFails ==
  (last.op = "resize_cover" /\ last.pre.pictures = <<>>) =>
     /\ last.arg[2] \in {NoExtension, "jpg", "jpeg", "png"} =>
           last.res = "NoCoverFoundError"
     /\ last.arg[2] \notin {NoExtension, "jpg", "jpeg", "png"} =>
           last.res = "WrongPictureFormatError"
     /\ tags = last.pre.tags /\ pictures = last.pre.pictures
     /\ dtags = last.pre.dtags /\ dpictures = last.pre.dpictures
     /\ files = last.pre.files

\* A cover was read, then removed, and resize_cover is called.
C6_Witness ==
  /\ last.op = "resize_cover" /\ last.pre.pictures = <<>>
  /\ last.pre.cover # Unset
  /\ last.arg = <<2, NoExtension>>
  /\ last.res = "NoCoverFoundError"

\* C9: after a successful resize_cover the stored picture is encoded in the
\* requested extension's format when one is given, and otherwise as PNG when
\* the original cover was PNG and as JPEG for every other original format;
\* its mime type agrees with the encoding of its bytes.
C9_ResizedFormat ==
  (last.op = "resize_cover" /\ last.res = "ok") =>
     LET ext == last.arg[2]
         orig == last.pre.pictures[1].data.fmt
         want == IF ext = "png" THEN "PNG"
                 ELSE IF ext \in {"jpg", "jpeg"} THEN "JPEG"
                 ELSE IF orig = "PNG" THEN "PNG" ELSE "JPEG"
     IN  /\ Len(pictures) = 1
         /\ pictures[1].data.fmt = want
         /\ pictures[1].mime = (IF want = "PNG" THEN "image/png" ELSE "image/jpeg")

====
